---------------------------- MODULE Spec2Model ----------------------------
(***************************************************************************)
(* LawScraper: the Kentucky statutes spider (spiders/KyStateStatutes.py)   *)
(* and the PDF download pipeline (pipelines.py).                           *)
(*                                                                         *)
(* Python strings that the code scans (title labels, subchapter labels,    *)
(* storage paths, timestamps) are sequences of one-character strings.      *)
(* Python dicts are functions from their keys; they live in a heap so      *)
(* that aliasing between the inherited context and the items is visible.   *)
(***************************************************************************)
EXTENDS Integers, Sequences, FiniteSets, Bags, TLC

VARIABLES
    roman, pos, res, last, ret,     \* one call of roman_to_int, symbol by symbol
    label, tret,                    \* one call of title_index
    web, files, root, now,          \* the site, the file fetch outcomes, FILES_STORE, the clock
    heap,                           \* the dicts: pass_along contexts and items
    requests,                       \* scrapy.Request objects yielded and not yet delivered
    downloading,                    \* items yielded by parse_chapter, file fetch under way
    results,                        \* item id -> results list, item_completed not yet called
    done,                           \* ids of the items item_completed has returned
    errors                          \* callbacks that raised, in order

romanVars == <<roman, pos, res, last, ret>>
titleVars == <<label, tret>>
crawlVars == <<web, files, root, now, heap, requests, downloading, results, done, errors>>
vars == <<romanVars, titleVars, crawlVars>>

-----------------------------------------------------------------------------
(* Bounds of the model *)

MaxNumeral == 3999
MaxLabelLen == 5
MaxTitleIndex == 10
MaxTitles == 2
MaxLinks == 3
MaxCrawlLinks == 2
MaxTicks == 1
MaxCrawlItems == 2
StartTime == 86399

-----------------------------------------------------------------------------
(* roman_to_int *)

raw == [c \in {"I", "V", "X", "L", "C", "D", "M"} |->
          CASE c = "I" -> 1 [] c = "V" -> 5 [] c = "X" -> 10 [] c = "L" -> 50
            [] c = "C" -> 100 [] c = "D" -> 500 [] c = "M" -> 1000]

\* A slip in the comparison: >= where the code has >.
RomanIterGe(r, l, con) ==
    IF con >= l THEN <<r - l, con>> ELSE <<r + l, con>>

\* One pass of the loop body: <<res, last>> after the symbol of value con.
RomanIter(r, l, con) ==
    IF con > l THEN <<r - l, con>> ELSE <<r + l, con>>

RECURSIVE RomanScan(_, _, _, _)
RomanScan(s, i, r, l) ==
    IF i > Len(s) THEN [err |-> "none", val |-> r + l]
    ELSE IF s[i] \notin DOMAIN raw THEN [err |-> "KeyError", val |-> 0]
    ELSE LET n == RomanIter(r, l, raw[s[i]]) IN RomanScan(s, i + 1, n[1], n[2])

roman_to_int(s) == RomanScan(s, 1, 0, 0)

-----------------------------------------------------------------------------
(* The conventional numerals: the standard encoding of a positive integer. *)

Rep(c, n) == [k \in 1..n |-> c]

Digit(d, one, five, ten) ==
    CASE d <= 3 -> Rep(one, d)
      [] d = 4 -> <<one, five>>
      [] d = 5 -> <<five>>
      [] d \in 6..8 -> <<five>> \o Rep(one, d - 5)
      [] d = 9 -> <<one, ten>>

Numeral(n) ==
    Rep("M", n \div 1000) \o Digit((n \div 100) % 10, "C", "D", "M")
      \o Digit((n \div 10) % 10, "X", "L", "C") \o Digit(n % 10, "I", "V", "X")

IsNumeral(s) == \E v \in 1..MaxTitleIndex : Numeral(v) = s
RomanValue(s) == CHOOSE v \in 1..MaxTitleIndex : Numeral(v) = s

-----------------------------------------------------------------------------
(* title_index *)

\* The ends j of a match of "[IVXLCDM]+ - " that starts at i.
MatchEnds(s, i) ==
    {j \in i..Len(s) :
        /\ \A k \in i..j : s[k] \in DOMAIN raw
        /\ j + 3 <= Len(s)
        /\ s[j + 1] = " " /\ s[j + 2] = "-" /\ s[j + 3] = " "}

SetMin(S) == CHOOSE x \in S : \A y \in S : x <= y
SetMax(S) == CHOOSE x \in S : \A y \in S : y <= x

\* re.match in place of re.search: the pattern is tried at the start only.
MatchStartsAnchored(s) == {i \in {1} : MatchEnds(s, i) # {}}

\* re.search tries every start, leftmost first.
MatchStarts(s) == {i \in 1..Len(s) : MatchEnds(s, i) # {}}

\* re.search(...): <<>> for None, else <<the group 'ind'>> (greedy).
re_search_title(s) ==
    IF MatchStarts(s) = {} THEN <<>>
    ELSE LET i == SetMin(MatchStarts(s))
         IN <<SubSeq(s, i, SetMax(MatchEnds(s, i)))>>

title_index(s) ==
    LET m == re_search_title(s)
    IN IF m = <<>> THEN [err |-> "AttributeError", val |-> 0]
       ELSE roman_to_int(m[1])


-----------------------------------------------------------------------------
(* Dicts, the heap, URLs *)

SetKey(d, k, v) == [x \in (DOMAIN d) \cup {k} |-> IF x = k THEN v ELSE d[x]]

Remove(s, i) == SubSeq(s, 1, i - 1) \o SubSeq(s, i + 1, Len(s))

\* No copy: the item is the inherited context itself.
AliasDict(h, id) == [heap |-> h, id |-> id]

\* dict.copy(): a new dict with the same keys and values.
CopyDict(h, id) == [heap |-> Append(h, h[id]), id |-> Len(h) + 1]

\* A URL is <<directory, file>>; an href is one too, with directory "" when
\* it is relative to the page it stands on.
StartUrl == <<"statutes", "">>

\* The href taken as it stands, never resolved against the page.
urljoin_nojoin(base, href) == href

\* response.urljoin(href)
urljoin(base, href) == IF href[1] = "" THEN <<base[1], href[2]>> ELSE href

-----------------------------------------------------------------------------
(* KystatestatutesSpider.parse                                             *)
(* A page is the sequence of its title spans; a title has the list of its  *)
(* text nodes and the links of the list that follows it; a link has the    *)
(* list of its text nodes and the list of its href attributes.             *)

RECURSIVE parse_links(_, _, _, _, _, _, _)
parse_links(h, base, title_name, title_i, links, k, out) ==
    IF k > Len(links) THEN [heap |-> h, out |-> out, err |-> "none"]
    ELSE LET chapter == links[k] IN
         IF chapter.text = <<>>
         THEN [heap |-> h, out |-> out, err |-> "IndexError"]
         ELSE IF Len(chapter.href) = 1
         THEN LET pass_along == [title_name |-> title_name,
                                 title_index |-> title_i,
                                 chapter_name |-> chapter.text[1]]
                  req == [url |-> urljoin(base, chapter.href[1]),
                          callback |-> "parse_chapter",
                          meta |-> Len(h) + 1]
              IN parse_links(Append(h, pass_along), base, title_name, title_i,
                             links, k + 1, Append(out, req))
         ELSE parse_links(h, base, title_name, title_i, links, k + 1, out)

RECURSIVE parse_titles(_, _, _, _, _)
parse_titles(h, base, titles, t, out) ==
    IF t > Len(titles) THEN [heap |-> h, out |-> out, err |-> "none"]
    ELSE LET title == titles[t] IN
         IF title.text = <<>>
         THEN [heap |-> h, out |-> out, err |-> "IndexError"]
         ELSE LET title_i == title_index(title.text[1]) IN
              IF title_i.err # "none"
              THEN [heap |-> h, out |-> out, err |-> title_i.err]
              ELSE LET r == parse_links(h, base, title.text[1], title_i.val,
                                        title.links, 1, out)
                   IN IF r.err # "none" THEN r
                      ELSE parse_titles(r.heap, base, titles, t + 1, r.out)

\* The requests yielded before the generator ends or raises.
parse(h, response) == parse_titles(h, response.url, response.page, 1, <<>>)

-----------------------------------------------------------------------------
(* KystatestatutesSpider.parse_chapter *)

Whitespace == {" ", "\t", "\n"}

\* "[.]?(?P<ind>[^\s]+)" searched anywhere: the leading dot made optional.
re_search_sub_lenient(s) ==
    LET S == {i \in 1..Len(s) : s[i] \notin Whitespace} IN
    IF S = {} THEN <<>>
    ELSE LET i == SetMin(S)
             a == IF s[i] = "." /\ i < Len(s) /\ s[i + 1] \notin Whitespace
                  THEN i + 1 ELSE i
         IN <<SubSeq(s, a, SetMax({j \in a..Len(s) :
                                     \A k \in a..j : s[k] \notin Whitespace}))>>

\* re.search("^[.](?P<ind>[^\s]+)", s): <<>> for None, else <<the group 'ind'>>.
re_search_sub(s) ==
    IF Len(s) >= 2 /\ s[1] = "." /\ s[2] \notin Whitespace
    THEN <<SubSeq(s, 2, SetMax({j \in 2..Len(s) :
                                  \A k \in 2..j : s[k] \notin Whitespace}))>>
    ELSE <<>>

RECURSIVE parse_chapter_links(_, _, _, _, _, _)
parse_chapter_links(h, url, passed, links, k, out) ==
    IF k > Len(links) THEN [heap |-> h, out |-> out, err |-> "none"]
    ELSE LET subchapter == links[k] IN
         IF subchapter.text = <<>>
         THEN [heap |-> h, out |-> out, err |-> "IndexError"]
         ELSE LET subchapter_name == subchapter.text[1]
                  m == re_search_sub(subchapter_name)
              IN IF m = <<>>
                 THEN [heap |-> h, out |-> out, err |-> "AttributeError"]
                 ELSE IF subchapter.href = <<>>
                 THEN [heap |-> h, out |-> out, err |-> "IndexError"]
                 ELSE LET subchapter_link == urljoin(url, subchapter.href[1])
                          c == CopyDict(h, passed)
                          item == SetKey(SetKey(SetKey(SetKey(c.heap[c.id],
                                     "subchapter_name", subchapter_name),
                                     "subchapter_index", m[1]),
                                     "subchapter_link", subchapter_link),
                                     "file_urls", <<subchapter_link>>)
                      IN parse_chapter_links([c.heap EXCEPT ![c.id] = item],
                                             url, passed, links, k + 1,
                                             Append(out, c.id))

\* The items yielded before the generator ends or raises.
parse_chapter(h, response) ==
    parse_chapter_links(h, response.url, response.meta, response.page, 1, <<>>)

-----------------------------------------------------------------------------
(* StatePDFPipeline.item_completed *)

Digits == <<"0", "1", "2", "3", "4", "5", "6", "7", "8", "9">>
Pad2(n) == <<Digits[((n \div 10) % 10) + 1], Digits[(n % 10) + 1]>>
Pad4(n) == Pad2(n \div 100) \o Pad2(n % 100)

\* The clock counts the seconds since 2016-01-01 00:00:00 local time and
\* stays within that month.
localtime(t) ==
    [year |-> 2016, mon |-> 1, mday |-> 1 + t \div 86400,
     hour |-> (t % 86400) \div 3600, min |-> (t % 3600) \div 60, sec |-> t % 60]

\* time.strftime("%Y-%m-%d %H:%M:%S")
strftime(t) ==
    LET tm == localtime(t)
    IN Pad4(tm.year) \o <<"-">> \o Pad2(tm.mon) \o <<"-">> \o Pad2(tm.mday)
         \o <<" ">> \o Pad2(tm.hour) \o <<":">> \o Pad2(tm.min)
         \o <<":">> \o Pad2(tm.sec)

\* The timestamp written before the success test instead of after it.
item_completed_stamp_first(h, rl, item, store, t) ==
    LET stamped == SetKey(h[item], "download_time", strftime(t)) IN
    IF ~rl[1][1]
    THEN [heap |-> [h EXCEPT ![item] = SetKey(stamped, "failure", "PDF Download")],
          ret |-> item]
    ELSE LET file_info == rl[1][2]
         IN [heap |-> [h EXCEPT ![item] =
                         SetKey(SetKey(stamped, "pdf_path", store \o file_info.path),
                                "pdf_md5", file_info.checksum)],
             ret |-> item]

item_completed(h, rl, item, store, t) ==
    IF ~rl[1][1]
    THEN [heap |-> [h EXCEPT ![item] = SetKey(@, "failure", "PDF Download")],
          ret |-> item]
    ELSE LET file_info == rl[1][2]
         IN [heap |-> [h EXCEPT ![item] =
                         SetKey(SetKey(SetKey(@,
                            "pdf_path", store \o file_info.path),
                            "pdf_md5", file_info.checksum),
                            "download_time", strftime(t))],
             ret |-> item]


-----------------------------------------------------------------------------
(* The pages, file infos and settings the engine may hand to the callbacks *)

T_I == <<"I", " ", "-", " ", "A">>
T_IV == <<"I", "V", " ", "-", " ", "A">>
T_A == <<"A">>
T_AX == <<"A", "X", " ", "-", " ", "A">>

HrefA == <<"", "a">>
HrefB == <<"", "b">>

TitleTexts == {<<>>, <<T_I>>, <<T_IV>>, <<T_A>>, <<T_AX>>}

IndexLinks ==
    {[text |-> <<"c1">>, href |-> <<HrefA>>],
     [text |-> <<"c2">>, href |-> <<>>],
     [text |-> <<"c2">>, href |-> <<HrefA, HrefB>>],
     [text |-> <<>>, href |-> <<>>]}

\* The link counts of the titles of a page of t titles with at most b links in all.
RECURSIVE SumTo(_, _)
SumTo(ks, i) == IF i = 0 THEN 0 ELSE ks[i] + SumTo(ks, i - 1)

Shapes(t, b) == {ks \in [1..t -> 0..b] : SumTo(ks, t) <= b}

ShapesUpTo(n, b) == UNION {Shapes(t, b) : t \in 0..n}

\* The width of a shape, its number of titles.
Width(ks) == Cardinality(DOMAIN ks)

\* The pages of one shape: title i has ks[i] chapter links.
PagesOfShape(texts, links, ks) ==
    {[i \in DOMAIN ks |->
        [text |-> tx[i],
         links |-> [j \in 1..ks[i] |-> flat[SumTo(ks, i - 1) + j]]]] :
       tx \in [DOMAIN ks -> texts],
       flat \in [1..SumTo(ks, Width(ks)) -> links]}

IndexShapes == ShapesUpTo(MaxTitles, MaxTitles)

L_1 == <<".", "1">>
L_2A == <<".", "2", " ", "A">>
L_bare == <<"1">>
L_dotsp == <<".", " ", "1">>

File1 == <<"", "p1">>
File2 == <<"pdf", "p2">>

SubLinks ==
    {[text |-> <<L_1>>, href |-> <<File1>>],
     [text |-> <<L_2A>>, href |-> <<File2>>],
     [text |-> <<L_bare>>, href |-> <<File1>>],
     [text |-> <<L_dotsp>>, href |-> <<File1>>],
     [text |-> <<L_1>>, href |-> <<>>],
     [text |-> <<>>, href |-> <<File1>>]}

ChapterPages == UNION {[1..n -> SubLinks] : n \in 0..MaxLinks}

Roots == {<<"/", "d", "/">>, <<"/", "d">>}
FileInfos == {[path |-> x, checksum |-> c] :
                x \in {<<"f">>, <<"a", "/", "f">>}, c \in {"md5a", "md5b"}}

\* The smaller families of the whole crawl: an index page of at most one title
\* with at most MaxCrawlLinks chapter links.
CrawlIndexPages ==
    UNION {PagesOfShape({<<T_IV>>},
                        {[text |-> <<"c1">>, href |-> <<HrefA>>],
                         [text |-> <<"c2">>, href |-> <<HrefB>>]},
                        ks) : ks \in ShapesUpTo(1, MaxCrawlLinks)}
CrawlChapterPages ==
    UNION {[1..n -> {[text |-> <<L_1>>, href |-> <<File1>>],
                     [text |-> <<L_2A>>, href |-> <<File2>>],
                     [text |-> <<L_bare>>, href |-> <<File1>>]}] : n \in 0..MaxCrawlItems}
CrawlFileInfos == {[path |-> <<"f">>, checksum |-> "md5a"]}

-----------------------------------------------------------------------------
(* The engine: delivery of responses, the file fetch, the completion call *)

SeqToBag(s) ==
    [x \in {s[k] : k \in DOMAIN s} |-> Cardinality({k \in DOMAIN s : s[k] = x})]

\* The site of the whole crawl has at most MaxCrawlItems subchapter links.
RECURSIVE SumLen(_, _)
SumLen(f, D) ==
    IF D = {} THEN 0
    ELSE LET u == CHOOSE x \in D : TRUE IN Len(f[u]) + SumLen(f, D \ {u})

CrawlChapterPagesLeft ==
    {p \in CrawlChapterPages :
        Len(p) + SumLen(web, (DOMAIN web) \ {StartUrl}) <= MaxCrawlItems}

\* The scheduler's duplicate filter (a Request has dont_filter=False): of the
\* requests for one URL only the first yielded is ever fetched.
Duplicate(i) ==
    \/ requests[i].url \in DOMAIN web
    \/ \E j \in 1..(i - 1) : requests[j].url = requests[i].url

OutcomesAt(u, infos) ==
    IF u \in DOMAIN files THEN {files[u]}
    ELSE {<<FALSE, "Failure">>}
           \cup {<<TRUE, [url |-> u, path |-> x.path, checksum |-> x.checksum]>> :
                   x \in infos}

Raised(callback, err) ==
    IF err = "none" THEN errors ELSE Append(errors, [callback |-> callback, err |-> err])

ParseIndex(pages) ==
    \E i \in 1..Len(requests) :
        /\ requests[i].callback = "parse"
        /\ ~Duplicate(i)
        /\ \E page \in pages :
             LET r == parse(heap, [url |-> requests[i].url, page |-> page,
                                   meta |-> requests[i].meta])
             IN /\ web' = SetKey(web, requests[i].url, page)
                /\ heap' = r.heap
                /\ requests' = Remove(requests, i) \o r.out
                /\ errors' = Raised("parse", r.err)
        /\ UNCHANGED <<files, root, now, downloading, results, done>>
        /\ UNCHANGED <<romanVars, titleVars>>

ParseChapter(pages) ==
    \E i \in 1..Len(requests) :
        /\ requests[i].callback = "parse_chapter"
        /\ ~Duplicate(i)
        /\ \E page \in pages :
             LET r == parse_chapter(heap, [url |-> requests[i].url, page |-> page,
                                           meta |-> requests[i].meta])
             IN /\ web' = SetKey(web, requests[i].url, page)
                /\ heap' = r.heap
                /\ requests' = Remove(requests, i)
                /\ downloading' = downloading (+) SeqToBag(r.out)
                /\ errors' = Raised("parse_chapter", r.err)
        /\ UNCHANGED <<files, root, now, results, done>>
        /\ UNCHANGED <<romanVars, titleVars>>

FilterDuplicate ==
    \E i \in 1..Len(requests) :
        /\ Duplicate(i)
        /\ requests' = Remove(requests, i)
        /\ UNCHANGED <<web, files, root, now, heap, downloading, results, done, errors>>
        /\ UNCHANGED <<romanVars, titleVars>>

\* FilesPipeline fetches every URL of item['file_urls']: one result per URL.
FetchFile(infos) ==
    \E item \in BagToSet(downloading) :
        LET urls == heap[item].file_urls
            U == {urls[k] : k \in DOMAIN urls}
        IN \E f \in [U -> UNION {OutcomesAt(u, infos) : u \in U}] :
             /\ \A u \in U : f[u] \in OutcomesAt(u, infos)
             /\ files' = [u \in (DOMAIN files) \cup U |->
                            IF u \in U THEN f[u] ELSE files[u]]
             /\ results' = results (+) SetToBag({[item |-> item,
                                                  res |-> [k \in DOMAIN urls |-> f[urls[k]]]]})
             /\ downloading' = downloading (-) SetToBag({item})
             /\ UNCHANGED <<web, root, now, heap, requests, done, errors>>
             /\ UNCHANGED <<romanVars, titleVars>>

ItemCompleted ==
    \E r \in BagToSet(results) :
        /\ results' = results (-) SetToBag({r})
        /\ IF r.res = <<>>
           THEN /\ errors' = Raised("item_completed", "IndexError")
                /\ UNCHANGED <<heap, done>>
           ELSE LET c == item_completed(heap, r.res, r.item, root, now)
                IN /\ heap' = c.heap
                   /\ done' = done (+) SetToBag({c.ret})
                   /\ UNCHANGED errors
        /\ UNCHANGED <<web, files, root, now, requests, downloading>>
        /\ UNCHANGED <<romanVars, titleVars>>

Tick ==
    /\ now < StartTime + MaxTicks
    /\ now' = now + 1
    /\ UNCHANGED <<web, files, root, heap, requests, downloading, results, done, errors>>
    /\ UNCHANGED <<romanVars, titleVars>>

-----------------------------------------------------------------------------
(* One call of roman_to_int, and one call of title_index *)

RomanStep ==
    /\ ret = <<>>
    /\ pos <= Len(roman)
    /\ IF roman[pos] \notin DOMAIN raw
       THEN ret' = <<"KeyError">> /\ UNCHANGED <<res, last, pos>>
       ELSE LET n == RomanIter(res, last, raw[roman[pos]])
            IN res' = n[1] /\ last' = n[2] /\ pos' = pos + 1 /\ UNCHANGED ret
    /\ UNCHANGED <<roman, titleVars, crawlVars>>

RomanReturn ==
    /\ ret = <<>>
    /\ pos > Len(roman)
    /\ ret' = <<res + last>>
    /\ UNCHANGED <<roman, pos, res, last, titleVars, crawlVars>>

CallTitleIndex ==
    /\ tret = <<>>
    /\ tret' = <<title_index(label)>>
    /\ UNCHANGED <<label, romanVars, crawlVars>>

-----------------------------------------------------------------------------
(* Initial states and specifications *)

RomanIdle == roman = <<>> /\ pos = 1 /\ res = 0 /\ last = 0 /\ ret = <<>>
TitleIdle == label = <<>> /\ tret = <<>>
CrawlIdle ==
    /\ web = <<>> /\ files = <<>> /\ root = <<"/", "d", "/">> /\ now = StartTime
    /\ heap = <<>> /\ requests = <<>> /\ downloading = EmptyBag
    /\ results = EmptyBag /\ done = EmptyBag /\ errors = <<>>

Numerals == {Numeral(n) : n \in 1..MaxNumeral}

InitRoman ==
    /\ roman \in Numerals
    /\ pos = 1 /\ res = 0 /\ last = 0 /\ ret = <<>>
    /\ TitleIdle /\ CrawlIdle

TitleAlphabet == {"I", "V", "X", " ", "-", "A"}

InitTitle ==
    /\ label \in UNION {[1..n -> TitleAlphabet] : n \in 0..MaxLabelLen}
    /\ tret = <<>>
    /\ RomanIdle /\ CrawlIdle

StartRequest == [url |-> StartUrl, callback |-> "parse", meta |-> 0]

\* The crawl starts with the request for start_urls.
Init ==
    /\ RomanIdle /\ TitleIdle
    /\ web = <<>> /\ files = <<>> /\ root = <<"/", "d", "/">> /\ now = StartTime
    /\ heap = <<>> /\ requests = <<StartRequest>> /\ downloading = EmptyBag
    /\ results = EmptyBag /\ done = EmptyBag /\ errors = <<>>

\* The crawl after parse has yielded the one request of a one-link index page.
OneLinkIndexPages == PagesOfShape(TitleTexts, IndexLinks, <<1>>)

InitChapter ==
    /\ RomanIdle /\ TitleIdle
    /\ \E page \in OneLinkIndexPages :
         LET r == parse(<<>>, [url |-> StartUrl, page |-> page, meta |-> 0])
         IN /\ r.err = "none" /\ Len(r.out) = 1
            /\ web = SetKey(<<>>, StartUrl, page)
            /\ heap = r.heap /\ requests = r.out
    /\ files = <<>> /\ root = <<"/", "d", "/">> /\ now = StartTime
    /\ downloading = EmptyBag /\ results = EmptyBag /\ done = EmptyBag
    /\ errors = <<>>

\* The crawl after parse_chapter has yielded the one item of a one-link page.
InitItem ==
    /\ RomanIdle /\ TitleIdle
    /\ \E page \in OneLinkIndexPages, sub \in {p \in ChapterPages : Len(p) = 1} :
         LET r == parse(<<>>, [url |-> StartUrl, page |-> page, meta |-> 0])
         IN /\ r.err = "none" /\ Len(r.out) = 1
            /\ LET c == parse_chapter(r.heap, [url |-> r.out[1].url, page |-> sub,
                                               meta |-> r.out[1].meta])
               IN /\ c.err = "none"
                  /\ web = SetKey(SetKey(<<>>, StartUrl, page), r.out[1].url, sub)
                  /\ heap = c.heap /\ downloading = SeqToBag(c.out)
    /\ root \in Roots
    /\ files = <<>> /\ now = StartTime /\ requests = <<>>
    /\ results = EmptyBag /\ done = EmptyBag /\ errors = <<>>

NextRoman == RomanStep \/ RomanReturn
NextTitle == CallTitleIndex
NextIndex ==
    \E ks \in IndexShapes : ParseIndex(PagesOfShape(TitleTexts, IndexLinks, ks))
NextChapter == ParseChapter(ChapterPages)
NextItem == FetchFile(FileInfos) \/ ItemCompleted \/ Tick
Next ==
    \/ ParseIndex(CrawlIndexPages)
    \/ ParseChapter(CrawlChapterPagesLeft)
    \/ FilterDuplicate
    \/ FetchFile(CrawlFileInfos)
    \/ ItemCompleted
    \/ Tick

SpecRoman == InitRoman /\ [][NextRoman]_vars
SpecTitle == InitTitle /\ [][NextTitle]_vars
SpecIndex == Init /\ [][NextIndex]_vars
SpecChapter == InitChapter /\ [][NextChapter]_vars
SpecItem == InitItem /\ [][NextItem]_vars
Spec == Init /\ [][Next]_vars


-----------------------------------------------------------------------------
(* Vocabulary of the properties *)

RomanSymbols == {"I", "V", "X", "L", "C", "D", "M"}

\* The label starts with Roman symbols followed by " - ".
PrefixEnds(s) ==
    {j \in 1..Len(s) :
        /\ \A k \in 1..j : s[k] \in RomanSymbols
        /\ Len(s) >= j + 3
        /\ SubSeq(s, j + 1, j + 3) = <<" ", "-", " ">>}
HasRomanDashPrefix(s) == PrefixEnds(s) # {}
PrefixOf(s) == SubSeq(s, 1, CHOOSE j \in PrefixEnds(s) : TRUE)

NumeralTable == [n \in 1..MaxNumeral |-> Numeral(n)]

Has(d, k) == k \in DOMAIN d
ContextKeys == {"title_name", "title_index", "chapter_name"}
ItemKeys == ContextKeys \cup {"subchapter_name", "subchapter_index",
                              "subchapter_link", "file_urls"}
TripleKeys == {"pdf_path", "pdf_md5", "download_time"}

IndexParsed == StartUrl \in DOMAIN web
IndexPage == web[StartUrl]

\* The chapter links of the index page that have exactly one href, in page order.
Qualifying ==
    {q \in (1..Len(IndexPage)) \X (1..MaxTitles) :
        /\ q[2] <= Len(IndexPage[q[1]].links)
        /\ Len(IndexPage[q[1]].links[q[2]].href) = 1}
Before(p, q) == p[1] < q[1] \/ (p[1] = q[1] /\ p[2] < q[2])
Rank(q) == Cardinality({p \in Qualifying : Before(p, q)}) + 1

WellFormedTitle(t) ==
    /\ t.text # <<>>
    /\ HasRomanDashPrefix(t.text[1])
    /\ IsNumeral(PrefixOf(t.text[1]))

MalformedTitle(t) == t.text # <<>> /\ ~HasRomanDashPrefix(t.text[1])

-----------------------------------------------------------------------------
(* roman_to_int and title_index *)

\* C1: for every conventional numeral (the standard encoding of 1..MaxNumeral,
\* subtractive pairs included) the scan with res/last returns the integer the
\* numeral encodes.
C1_RomanToIntConventional ==
    ret # <<>> =>
        \A n \in 1..MaxNumeral : NumeralTable[n] = roman => ret = <<n>>

C1_Witness ==
    roman = <<"M", "C", "M", "X", "C", "I", "V">> /\ ret = <<1994>>

\* C6: title_index returns the value of the label's leading Roman numeral, and
\* raises for every label that does not start with Roman symbols and " - ".
C6_TitleIndexPrefixOrError ==
    tret # <<>> =>
        IF HasRomanDashPrefix(label)
        THEN IsNumeral(PrefixOf(label)) =>
                tret[1] = [err |-> "none", val |-> RomanValue(PrefixOf(label))]
        ELSE tret[1].err = "AttributeError"

-----------------------------------------------------------------------------
(* parse *)

\* C5: on an index page whose title labels are all well-formed, parse raises
\* nothing and yields exactly one request per chapter link with exactly one
\* href, in page order, each carrying its title's name, the Roman value of
\* that title and the link's own chapter_name.
C5_OneRequestPerSingleHrefLink ==
    (IndexParsed /\ \A t \in 1..Len(IndexPage) : WellFormedTitle(IndexPage[t])) =>
        /\ errors = <<>>
        /\ Len(requests) = Cardinality(Qualifying)
        /\ \A q \in Qualifying :
             heap[requests[Rank(q)].meta] =
                [title_name |-> IndexPage[q[1]].text[1],
                 title_index |-> RomanValue(PrefixOf(IndexPage[q[1]].text[1])),
                 chapter_name |-> IndexPage[q[1]].links[q[2]].text[1]]

\* C9: a title label without a Roman-numeral-dash prefix is a hard error of the
\* page: parse raises, and yields no request for that title or any later one.
C9_MalformedTitleStopsPage ==
    IndexParsed =>
        \A t \in 1..Len(IndexPage) :
            MalformedTitle(IndexPage[t]) =>
                /\ errors # <<>>
                /\ Len(requests) <= Cardinality({q \in Qualifying : q[1] < t})


-----------------------------------------------------------------------------
(* parse_chapter, in the crawl that starts from one chapter request whose   *)
(* inherited context is heap[1]; the items copied from it are heap[2], ...  *)

ChapterParsed == IndexParsed /\ requests = <<>> /\ Cardinality(DOMAIN web) = 2
ChapterUrl == CHOOSE u \in DOMAIN web : u # StartUrl
ChapterPage == web[ChapterUrl]

StartsWithDot(l) == l.text # <<>> /\ l.text[1] # <<>> /\ l.text[1][1] = "."
NoLeadingDot(l) == l.text # <<>> /\ ~StartsWithDot(l)

\* The label is "." and then a non-empty token that ends at the first
\* whitespace or at the end of the label.
HasDotToken(l) ==
    StartsWithDot(l) /\ Len(l.text[1]) >= 2 /\ l.text[1][2] \notin Whitespace
TokenOf(s) ==
    SubSeq(s, 2, CHOOSE j \in 2..Len(s) :
                    /\ \A k \in 2..j : s[k] \notin Whitespace
                    /\ j = Len(s) \/ s[j + 1] \in Whitespace)

Extractable(l) == HasDotToken(l) /\ l.href # <<>>

\* The first link that cannot be extracted, or one past the page.
FailurePoint ==
    SetMin({k \in 1..Len(ChapterPage) : ~Extractable(ChapterPage[k])}
             \cup {Len(ChapterPage) + 1})

\* The item of link k is as the claim describes it.
ItemOfLink(k) ==
    LET item == heap[k + 1]
        l == ChapterPage[k]
    IN /\ DOMAIN item = ItemKeys
       /\ \A key \in ContextKeys : item[key] = heap[1][key]
       /\ item.subchapter_name = l.text[1]
       /\ item.subchapter_index = TokenOf(l.text[1])
       /\ item.subchapter_link[1] # ""
       /\ item.subchapter_link[2] = l.href[1][2]
       /\ l.href[1][1] # "" => item.subchapter_link = l.href[1]
       /\ item.file_urls = <<item.subchapter_link>>

OneItemPerLink ==
    /\ errors = <<>>
    /\ Len(heap) = Len(ChapterPage) + 1
    /\ DOMAIN heap[1] = ContextKeys
    /\ downloading = SetToBag(2..(Len(ChapterPage) + 1))
    /\ \A k \in 1..Len(ChapterPage) : ItemOfLink(k)

\* C7: when a link's label has no leading ".", parse_chapter raises; no item
\* is yielded for that link or any later one, and the items yielded are
\* exactly those of the links before the failure point (which is that link
\* when every link before it can be extracted).
C7_ParseChapterFailFast ==
    ChapterParsed =>
        \A k \in 1..Len(ChapterPage) :
            NoLeadingDot(ChapterPage[k]) =>
                /\ errors # <<>>
                /\ FailurePoint <= k
                /\ FailurePoint = k => errors[1].err = "AttributeError"
                /\ Len(heap) = FailurePoint
                /\ downloading = SetToBag(2..FailurePoint)
                /\ \A j \in 1..(FailurePoint - 1) :
                     heap[j + 1].subchapter_name = ChapterPage[j].text[1]

C7_Witness ==
    /\ ChapterParsed
    /\ Len(ChapterPage) = 3
    /\ FailurePoint = 2
    /\ NoLeadingDot(ChapterPage[2])
    /\ BagCardinality(downloading) = 1
    /\ errors # <<>>

\* C8 as stated: on a chapter page whose link labels all start with ".",
\* parse_chapter yields exactly one WorkItem per link, each with the inherited
\* context unchanged plus subchapter_name, subchapter_index, the absolute
\* subchapter_link and file_urls = [subchapter_link].
C8_OneItemPerDotLink ==
    (ChapterParsed /\ \A k \in 1..Len(ChapterPage) : StartsWithDot(ChapterPage[k]))
        => OneItemPerLink

\* C8 amended: the same, on a chapter page whose every link has a label that
\* is "." followed at once by a non-whitespace character, and has an href.
C8_OneItemPerExtractableLink ==
    (ChapterParsed /\ \A k \in 1..Len(ChapterPage) : Extractable(ChapterPage[k]))
        => OneItemPerLink

C8_Witness ==
    /\ ChapterParsed
    /\ Len(ChapterPage) = 3
    /\ \A k \in 1..3 : Extractable(ChapterPage[k])
    /\ ChapterPage[1] # ChapterPage[2]
    /\ BagCardinality(downloading) = 3


-----------------------------------------------------------------------------
(* item_completed *)

Failed(d) == Has(d, "failure") /\ \A k \in TripleKeys : ~Has(d, k)
Succeeded(d) == ~Has(d, "failure") /\ \A k \in TripleKeys : Has(d, k)

\* C2: every item item_completed has returned is either Failed (failure and
\* no part of the success triple) or Succeeded (the whole triple and no
\* failure), and no dict ever carries failure together with a part of the triple.
C2_FailedOrSucceeded ==
    /\ \A i \in BagToSet(done) : Failed(heap[i]) \/ Succeeded(heap[i])
    /\ \A i \in DOMAIN heap :
         ~(Has(heap[i], "failure") /\ \E k \in TripleKeys : Has(heap[i], k))

C2_Witness ==
    \E i, j \in BagToSet(done) :
        /\ Failed(heap[i]) /\ Succeeded(heap[j])
        /\ heap[i].chapter_name = heap[j].chapter_name

\* C3: when the one outcome of an item is a failure, item_completed sets
\* failure = "PDF Download" on that item, changes nothing else in it or in any
\* other dict, and returns the item.
C3_FailureMarksItemOnly ==
    [][\A r \in BagToSet(results) :
          (r.res # <<>> /\ ~r.res[1][1] /\ results' = results (-) SetToBag({r})) =>
              /\ heap' = [heap EXCEPT ![r.item] = SetKey(@, "failure", "PDF Download")]
              /\ DOMAIN heap'[r.item] = ItemKeys \cup {"failure"}
              /\ done' = done (+) SetToBag({r.item})]_vars

C3_Witness ==
    \E i \in BagToSet(done) :
        /\ Has(heap[i], "failure")
        /\ heap[i].failure = "PDF Download"
        /\ DOMAIN heap[i] = ItemKeys \cup {"failure"}
        /\ now > StartTime

\* The path below the storage root: os.path.join(store, path).
PathJoin(store, path) ==
    IF path # <<>> /\ path[1] = "/" THEN path
    ELSE IF store = <<>> \/ store[Len(store)] = "/" THEN store \o path
    ELSE store \o <<"/">> \o path

IsDigit(c) == \E k \in 1..10 : Digits[k] = c
IsTimestamp(s) ==
    /\ Len(s) = 19
    /\ s[5] = "-" /\ s[8] = "-" /\ s[11] = " " /\ s[14] = ":" /\ s[17] = ":"
    /\ \A k \in (1..19) \ {5, 8, 11, 14, 17} : IsDigit(s[k])

\* C4: for every storage root and path, a successful outcome leaves the item
\* with pdf_path = the file's path joined with the storage root, pdf_md5 = the
\* checksum, download_time = a YYYY-MM-DD HH:MM:SS time of the crawl, and the
\* hierarchy and subchapter fields as they were.
C4_SuccessEnrichesItem ==
    \A i \in BagToSet(done) :
        LET d == heap[i]
            o == files[d.file_urls[1]]
        IN o[1] =>
             /\ DOMAIN d = ItemKeys \cup TripleKeys
             /\ d.pdf_path = PathJoin(root, o[2].path)
             /\ d.pdf_md5 = o[2].checksum
             /\ IsTimestamp(d.download_time)
             /\ \E t \in StartTime..now : d.download_time = strftime(t)
             /\ \A key \in ContextKeys : d[key] = heap[1][key]
             /\ d.file_urls = <<d.subchapter_link>>

-----------------------------------------------------------------------------
(* The whole crawl *)

ResultItems == {r.item : r \in BagToSet(results)}
RequestMetas == {requests[k].meta : k \in 1..Len(requests)}

\* Every dict is held by one owner only: no item is pending or finalized
\* twice, and no item is the context of a pending request.
NoAlias ==
    /\ \A i \in BagToSet(downloading) : CopiesIn(i, downloading) = 1
    /\ \A r \in BagToSet(results) : CopiesIn(r, results) = 1
    /\ \A i \in BagToSet(done) : CopiesIn(i, done) = 1
    /\ Cardinality(ResultItems) = Cardinality(BagToSet(results))
    /\ Cardinality(RequestMetas) = Len(requests)
    /\ BagToSet(downloading) \cap ResultItems = {}
    /\ BagToSet(downloading) \cap BagToSet(done) = {}
    /\ ResultItems \cap BagToSet(done) = {}
    /\ RequestMetas \cap (BagToSet(downloading) \cup ResultItems \cup BagToSet(done)) = {}

\* A step that finalizes an item changes no other dict.
FinalizeFrame ==
    \A r \in BagToSet(results) :
        (results' = results (-) SetToBag({r})) =>
            /\ DOMAIN heap' = DOMAIN heap
            /\ \A j \in (DOMAIN heap) \ {r.item} : heap'[j] = heap[j]

RECURSIVE KeepFirst(_, _, _)
KeepFirst(reqs, i, seen) ==
    IF i > Len(reqs) THEN <<>>
    ELSE IF reqs[i].url \in seen THEN KeepFirst(reqs, i + 1, seen)
    ELSE <<reqs[i]>> \o KeepFirst(reqs, i + 1, seen \cup {reqs[i].url})

RECURSIVE RunChapters(_, _, _, _)
RunChapters(h, reqs, i, items) ==
    IF i > Len(reqs) THEN [heap |-> h, items |-> items]
    ELSE LET r == parse_chapter(h, [url |-> reqs[i].url, page |-> web[reqs[i].url],
                                    meta |-> reqs[i].meta])
         IN RunChapters(r.heap, reqs, i + 1, items \o r.out)

RECURSIVE RunItems(_, _, _, _)
RunItems(h, items, k, t) ==
    IF k > Len(items) THEN h
    ELSE LET urls == h[items[k]].file_urls
             c == item_completed(h, [j \in DOMAIN urls |-> files[urls[j]]],
                                 items[k], root, t)
         IN RunItems(c.heap, items, k + 1, t)

\* The finalized items of the crawl that processes everything in the order
\* it was yielded, at clock time t.
InOrderRun(t) ==
    LET p == parse(<<>>, [url |-> StartUrl, page |-> IndexPage, meta |-> 0])
        c == RunChapters(p.heap, KeepFirst(p.out, 1, {}), 1, <<>>)
        h == RunItems(c.heap, c.items, 1, t)
    IN {h[c.items[k]] : k \in DOMAIN c.items}

Quiescent ==
    /\ IndexParsed /\ requests = <<>>
    /\ downloading = EmptyBag /\ results = EmptyBag

Finalized == {heap[i] : i \in BagToSet(done)}
WithoutTime(d) == [k \in (DOMAIN d) \ {"download_time"} |-> d[k]]

\* C10 as stated: no two WorkItems share mutable state, finalizing one changes
\* no other dict, and the finalized items of the crawl are the same set for
\* every processing order.
C10_SameFinalSet ==
    /\ []NoAlias
    /\ [][FinalizeFrame]_vars
    /\ [](Quiescent => Finalized = InOrderRun(StartTime))

\* C10 amended: the same, the finalized items being the same set for every
\* processing order apart from download_time, which is the clock time of
\* each item's own finalization.
C10_SameFinalSetApartFromTime ==
    /\ []NoAlias
    /\ [][FinalizeFrame]_vars
    /\ [](Quiescent =>
            {WithoutTime(d) : d \in Finalized}
              = {WithoutTime(d) : d \in InOrderRun(StartTime)})

C10_Witness ==
    /\ Quiescent
    /\ Cardinality(DOMAIN web) = 3
    /\ BagCardinality(done) = 2
    /\ \E i, j \in BagToSet(done) :
         /\ i < j
         /\ Succeeded(heap[i]) /\ Succeeded(heap[j])
         /\ heap[i].chapter_name # heap[j].chapter_name
         /\ heap[i].download_time # heap[j].download_time
         /\ requests = <<>>

=============================================================================
